---- MODULE Spec2Model ----
(***************************************************************************)
(* Camera action panel of the web UI: the icon resolver (ActionIconMap.ts)  *)
(* and the CameraActions component (CameraActions.tsx): partition of the   *)
(* configured actions, rendered controls, executeAction and its outcomes.  *)
(***************************************************************************)
EXTENDS Integers, Sequences, FiniteSets, TLC

VARIABLES
    camera,           \* prop camera: its name and its configured actions, if any
    cameraEnabled,    \* prop cameraEnabled
    executingAction,  \* useState<string | null>: Null or an action name
    pending,          \* axios.post calls awaited by executeAction closures
    issued,           \* number of axios.post calls made so far
    lastEvent,        \* the most recent UI event or completion
    effects,          \* toast and console.error calls made while handling lastEvent
    rendered,         \* what CameraActions returned at the last render
    resolved,         \* direct getActionIcon calls made: <<name, returned icon>>
    consoleWarn       \* console.warn calls made by getActionIcon: the icon names

vars == <<camera, cameraEnabled, executingAction, pending, issued, lastEvent,
          effects, rendered, resolved, consoleWarn>>

panelVars == <<cameraEnabled, executingAction, pending, issued, lastEvent, effects>>

iconVars == <<resolved, consoleWarn>>

----------------------------------------------------------------------------
(* Bounds of the model *)

MaxActions == 3        \* longest action list the presenter is applied to
MaxPanelActions == 2   \* longest action list of a running panel
MaxTriggers == 3       \* executeAction calls in one run
MaxResolves == 3       \* getActionIcon calls in one run

(* JavaScript's null and undefined *)
Null == "<null>"
Undefined == "<undefined>"

Names == {"A", "B"}
CameraName == "front"

----------------------------------------------------------------------------
(* ActionIconMap.ts *)

\* The modelled part of the table: shorthand properties, key = component name.
IconKeys == {"FaLightbulb", "FaBell", "FaPlay", "MdHome", "LuCamera"}

ICON_MAP == [k \in IconKeys |-> k]

\* ICON_MAP is an object literal: what is not an own property is looked up on
\* Object.prototype.
ObjectPrototype ==
    [k \in {"constructor", "toString"} |->
        IF k = "constructor" THEN "Object" ELSE "Object.prototype.toString"]

\* ICON_MAP[iconName]
IconMapGet(iconName) ==
    IF iconName \in DOMAIN ICON_MAP THEN ICON_MAP[iconName]
    ELSE IF iconName \in DOMAIN ObjectPrototype THEN ObjectPrototype[iconName]
    ELSE Undefined

\* !iconName
NoIconName(iconName) == iconName = Undefined \/ iconName = ""

\* The returned component and the console.warn calls made (the icon names).
getActionIcon(iconName) ==
    IF NoIconName(iconName)
    THEN [icon |-> "FaPlay", warn |-> <<>>]
    ELSE LET IconComponent == IconMapGet(iconName) IN
         IF IconComponent # Undefined
         THEN [icon |-> IconComponent, warn |-> <<>>]
         ELSE [icon |-> "FaPlay", warn |-> <<iconName>>]

\* Icon names a configuration may give.
IconNames == {Undefined, "", "FaBell", "FaPlay", "LuCamera",
              "FaSiren", "bogus", "constructor", "toString"}

----------------------------------------------------------------------------
(* CameraActions.tsx: rendering *)

Action(name, icon, standalone) ==
    [name |-> name, icon |-> icon, standalone |-> standalone]

IsStandalone(action) == action.standalone
IsDropdown(action) == ~action.standalone

dropdownActionsCopied(acts) == SelectSeq(acts, IsStandalone)

standaloneActions(acts) == SelectSeq(acts, IsStandalone)
dropdownActions(acts) == SelectSeq(acts, IsDropdown)

Title(isExecuting, name) ==
    IF isExecuting THEN "Executing " \o name \o "..." ELSE name

ToggleDisabledCameraOnly(enabled, isExecuting) == ~enabled

ToggleDisabled(enabled, isExecuting) == ~enabled \/ isExecuting
ItemDisabled(enabled, isExecuting) == ~enabled \/ isExecuting

\* One <CameraFeatureToggle> of the components array.
Toggle(action, enabled, executing) ==
    LET isExecuting == executing = action.name IN
    [kind |-> "toggle",
     Icon |-> getActionIcon(action.icon).icon,
     isActive |-> isExecuting,
     title |-> Title(isExecuting, action.name),
     onClick |-> action.name,
     disabled |-> ToggleDisabled(enabled, isExecuting),
     items |-> <<>>]

\* One <DropdownMenuItem>.
MenuItem(action, enabled, executing) ==
    LET isExecuting == executing = action.name IN
    [kind |-> "item",
     Icon |-> getActionIcon(action.icon).icon,
     isActive |-> isExecuting,
     title |-> Title(isExecuting, action.name),
     onClick |-> action.name,
     disabled |-> ItemDisabled(enabled, isExecuting),
     items |-> <<>>]

renderDropdownMenuAlways(acts, enabled, executing) ==
    LET dd == dropdownActions(acts) IN
    << [kind |-> "menu", Icon |-> "FaPlay", isActive |-> FALSE,
        title |-> "dropdown-menu", onClick |-> Null, disabled |-> FALSE,
        items |-> [i \in 1..Len(dd) |-> MenuItem(dd[i], enabled, executing)]] >>

\* renderDropdownMenu(): <<>> stands for null, else one <DropdownMenu>.
renderDropdownMenu(acts, enabled, executing) ==
    LET dd == dropdownActions(acts) IN
    IF Len(dd) = 0 THEN <<>>
    ELSE << [kind |-> "menu",
             Icon |-> "FaPlay",
             isActive |-> FALSE,
             title |-> "dropdown-menu",
             onClick |-> Null,
             disabled |-> FALSE,
             items |-> [i \in 1..Len(dd) |-> MenuItem(dd[i], enabled, executing)]] >>

\* components = [...standaloneActions.map(..), renderDropdownMenu()].filter(Boolean)
Components(acts, enabled, executing) ==
    LET sa == standaloneActions(acts) IN
    [i \in 1..Len(sa) |-> Toggle(sa[i], enabled, executing)]
        \o renderDropdownMenu(acts, enabled, executing)

\* !camera.actions?.actions || camera.actions.actions.length === 0
NothingConfigured(cam) == ~cam.hasActions \/ Len(cam.actions) = 0

\* What the component returns: null, components[0], or components; with it, the
\* locals standaloneActions and dropdownActions of that render.
CameraActions(cam, enabled, executing) ==
    IF NothingConfigured(cam)
    THEN [shape |-> "null", components |-> <<>>,
          standaloneActions |-> <<>>, dropdownActions |-> <<>>]
    ELSE LET components == Components(cam.actions, enabled, executing) IN
         [shape |-> IF Len(components) = 1 THEN "single" ELSE "array",
          components |-> components,
          standaloneActions |-> standaloneActions(cam.actions),
          dropdownActions |-> dropdownActions(cam.actions)]

Unmounted == [shape |-> "unmounted", components |-> <<>>,
              standaloneActions |-> <<>>, dropdownActions |-> <<>>]

----------------------------------------------------------------------------
(* CameraActions.tsx: executeAction *)

SuccessDuration == 3000
ErrorDuration == 5000

Toast(severity, message, duration) ==
    [call |-> "toast", severity |-> severity, message |-> message,
     duration |-> duration, position |-> "top-center"]

\* console.error("Error executing camera action:", error)
ConsoleError ==
    [call |-> "console.error", severity |-> "error",
     message |-> "Error executing camera action:", duration |-> 0, position |-> ""]

FailedText(actionName) == "Failed to execute action \"" \o actionName \o "\""
SuccessText(actionName) == "Action \"" \o actionName \o "\" executed successfully"

\* What the awaited axios.post can produce.
Response(success, message) ==
    [kind |-> "response", data |-> "object", success |-> success, message |-> message]
NoData == [kind |-> "response", data |-> "null", success |-> FALSE, message |-> Undefined]
Rejected == [kind |-> "rejected", data |-> "null", success |-> FALSE, message |-> Undefined]

Outcomes == {Response(TRUE, Undefined), Response(FALSE, Undefined),
             Response(FALSE, ""), Response(FALSE, "busy"), NoData, Rejected}

\* The await rejects, or reading response.data.success throws: the catch block runs.
Throws(outcome) == outcome.kind = "rejected" \/ outcome.data = "null"

MessageOrIgnored(message, fallback) == fallback

\* response.data.message || `Failed to execute action "${actionName}"`
MessageOr(message, fallback) ==
    IF message = Undefined \/ message = "" THEN fallback ELSE message

\* The calls the try and catch blocks make once the await has settled, in order.
TryCatch(actionName, outcome) ==
    IF Throws(outcome)
    THEN <<ConsoleError, Toast("error", FailedText(actionName), ErrorDuration)>>
    ELSE IF outcome.success
    THEN <<Toast("success", SuccessText(actionName), SuccessDuration)>>
    ELSE <<Toast("error", MessageOr(outcome.message, FailedText(actionName)),
                 ErrorDuration)>>

AfterFinallyMissing(executing) == executing

AfterFinally(executing) == Null

NoEvent == [op |-> "none", action |-> Null, called |-> FALSE, outcome |-> Rejected]

----------------------------------------------------------------------------
(* Configurations *)

SeqsUpTo(S, n) == UNION {[1..k -> S] : k \in 0..n}

Camera(hasActions, acts) ==
    [name |-> CameraName, hasActions |-> hasActions, actions |-> acts]

NoActionsCamera == Camera(FALSE, <<>>)

PanelActionSet == {Action(n, Undefined, s) : n \in Names, s \in BOOLEAN}
PanelCameras ==
    {NoActionsCamera} \cup {Camera(TRUE, a) : a \in SeqsUpTo(PanelActionSet, MaxPanelActions)}

PresentActionSet ==
    {Action(n, i, s) : n \in Names, i \in {Undefined, "FaBell"}, s \in BOOLEAN}
PresentCameras ==
    {NoActionsCamera} \cup {Camera(TRUE, a) : a \in SeqsUpTo(PresentActionSet, MaxActions)}

----------------------------------------------------------------------------
(* The running panel *)

Init ==
    /\ camera \in PanelCameras
    /\ cameraEnabled \in BOOLEAN
    /\ executingAction = Null
    /\ pending = {}
    /\ issued = 0
    /\ lastEvent = NoEvent
    /\ effects = <<>>
    /\ rendered = CameraActions(camera, cameraEnabled, executingAction)
    /\ resolved = <<>>
    /\ consoleWarn = <<>>

\* The render that follows a state or prop change.
Render == rendered' = CameraActions(camera', cameraEnabled', executingAction')

Event(op, actionName, called) ==
    [op |-> op, action |-> actionName, called |-> called, outcome |-> Rejected]

\* executeAction up to its await: setExecutingAction(actionName), axios.post(...)
executeAction(actionName) ==
    /\ executingAction' = actionName
    /\ issued' = issued + 1
    /\ pending' = pending \cup
           {[id |-> issued + 1, camera |-> camera.name, action |-> actionName]}

\* CameraFeatureToggle runs onClick unless it is disabled.
ToggleRunsOnClick(disabled) == ~disabled

OnSelectIgnoresCamera(enabled, isExecuting) == ~isExecuting
OnSelectIgnoresExecuting(enabled, isExecuting) == enabled

\* if (cameraEnabled && !isExecuting) of onSelect
OnSelectCalls(enabled, isExecuting) == enabled /\ ~isExecuting

Toggles == {i \in 1..Len(rendered.components) : rendered.components[i].kind = "toggle"}
Menus == {i \in 1..Len(rendered.components) : rendered.components[i].kind = "menu"}

\* The user clicks the i-th standalone control.
ClickToggle(i) ==
    /\ issued < MaxTriggers
    /\ i \in Toggles
    /\ LET control == rendered.components[i]
           called == ToggleRunsOnClick(control.disabled) IN
       /\ IF called
          THEN executeAction(control.onClick)
          ELSE UNCHANGED <<executingAction, issued, pending>>
       /\ lastEvent' = Event("click", control.onClick, called)
    /\ effects' = <<>>
    /\ UNCHANGED <<camera, cameraEnabled, iconVars>>
    /\ Render

\* The user selects the j-th item of the menu.
SelectItem(j) ==
    /\ issued < MaxTriggers
    /\ \E m \in Menus :
         /\ j \in 1..Len(rendered.components[m].items)
         /\ LET item == rendered.components[m].items[j]
                called == OnSelectCalls(cameraEnabled, item.isActive) IN
            /\ IF called
               THEN executeAction(item.onClick)
               ELSE UNCHANGED <<executingAction, issued, pending>>
            /\ lastEvent' = Event("select", item.onClick, called)
    /\ effects' = <<>>
    /\ UNCHANGED <<camera, cameraEnabled, iconVars>>
    /\ Render

\* The awaited call of request r settles with outcome o: try / catch / finally.
Complete(r, o) ==
    /\ r \in pending
    /\ pending' = pending \ {r}
    /\ effects' = TryCatch(r.action, o)
    /\ executingAction' = AfterFinally(executingAction)
    /\ lastEvent' = [op |-> "complete", action |-> r.action, called |-> FALSE,
                     outcome |-> o]
    /\ UNCHANGED <<camera, cameraEnabled, issued, iconVars>>
    /\ Render

\* The parent re-renders the panel with the other value of cameraEnabled.
SetCameraEnabled ==
    /\ cameraEnabled' = ~cameraEnabled
    /\ lastEvent' = Event("props", Null, FALSE)
    /\ effects' = <<>>
    /\ UNCHANGED <<camera, executingAction, pending, issued, iconVars>>
    /\ Render

Click == \E i \in Toggles : ClickToggle(i)
Select == \E m \in Menus : \E j \in 1..Len(rendered.components[m].items) : SelectItem(j)
Settle == \E r \in pending, o \in Outcomes : Complete(r, o)

Next == Click \/ Select \/ Settle \/ SetCameraEnabled

Spec == Init /\ [][Next]_vars

\* Every outstanding remote call eventually responds or fails.
FairSpec == Spec /\ WF_vars(Settle)

----------------------------------------------------------------------------
(* The icon resolver on its own *)

InitIcon ==
    /\ camera = NoActionsCamera
    /\ cameraEnabled = TRUE
    /\ executingAction = Null
    /\ pending = {}
    /\ issued = 0
    /\ lastEvent = NoEvent
    /\ effects = <<>>
    /\ rendered = Unmounted
    /\ resolved = <<>>
    /\ consoleWarn = <<>>

Resolve(iconName) ==
    /\ Len(resolved) < MaxResolves
    /\ LET r == getActionIcon(iconName) IN
       /\ resolved' = Append(resolved, <<iconName, r.icon>>)
       /\ consoleWarn' = consoleWarn \o r.warn
    /\ UNCHANGED <<camera, panelVars, rendered>>

NextIcon == \E n \in IconNames : Resolve(n)

SpecIcon == InitIcon /\ [][NextIcon]_vars

----------------------------------------------------------------------------
(* The presenter on its own *)

InitPresent ==
    /\ camera \in PresentCameras
    /\ cameraEnabled \in BOOLEAN
    /\ executingAction = Null
    /\ pending = {}
    /\ issued = 0
    /\ lastEvent = NoEvent
    /\ effects = <<>>
    /\ rendered = Unmounted
    /\ resolved = <<>>
    /\ consoleWarn = <<>>

Present ==
    /\ rendered = Unmounted
    /\ rendered' = CameraActions(camera, cameraEnabled, executingAction)
    /\ UNCHANGED <<camera, panelVars, iconVars>>

NextPresent == Present

SpecPresent == InitPresent /\ [][NextPresent]_vars

----------------------------------------------------------------------------
(* Properties of executeAction *)

Activation(e) == e.op \in {"click", "select"}

\* C1: every completion of an executeAction call, whatever its outcome, leaves
\* executingAction null; and when every outstanding call settles and no further
\* trigger starts, the panel becomes idle with nothing outstanding and stays so.
C1_CompletionIdles ==
    /\ [](lastEvent.op = "complete" => executingAction = Null)
    /\ <>[](executingAction = Null /\ pending = {})

C1_Witness ==
    /\ lastEvent.op = "complete"
    /\ Throws(lastEvent.outcome)
    /\ issued = 2
    /\ executingAction = Null
    /\ pending = {}

\* The toast the claim promises for an outcome; a message counts as supplied
\* when Supplied says so.
PromisedToast(actionName, o, Supplied(_)) ==
    IF o.kind = "response" /\ o.data = "object" /\ o.success
    THEN [call |-> "toast", severity |-> "success",
          message |-> "Action \"" \o actionName \o "\" executed successfully",
          duration |-> 3000, position |-> "top-center"]
    ELSE IF o.kind = "response" /\ o.data = "object" /\ Supplied(o.message)
    THEN [call |-> "toast", severity |-> "error", message |-> o.message,
          duration |-> 5000, position |-> "top-center"]
    ELSE [call |-> "toast", severity |-> "error",
          message |-> "Failed to execute action \"" \o actionName \o "\"",
          duration |-> 5000, position |-> "top-center"]

MessagePresent(message) == message # Undefined
MessageNonEmpty(message) == message # Undefined /\ message # ""

IsToast(effect) == effect.call = "toast"

\* C2 as stated: each completed trigger emits exactly one notification, the one
\* of its outcome, where a success=false response shows the server's message
\* whenever one is present.
C2_Original ==
    lastEvent.op = "complete" =>
        SelectSeq(effects, IsToast)
            = <<PromisedToast(lastEvent.action, lastEvent.outcome, MessagePresent)>>

\* C2 amended: as stated, but a success=false response shows the server's
\* message only when it is present and not the empty string; an empty message
\* gives the 'Failed to execute action "<actionName>"' text.
C2_OneToastPerOutcome ==
    lastEvent.op = "complete" =>
        SelectSeq(effects, IsToast)
            = <<PromisedToast(lastEvent.action, lastEvent.outcome, MessageNonEmpty)>>

C2_Witness ==
    /\ lastEvent.op = "complete"
    /\ lastEvent.outcome = Response(FALSE, "busy")
    /\ Len(effects) = 1
    /\ effects[1].severity = "error"
    /\ effects[1].message = "busy"

\* C3: while cameraEnabled is false, activating any control (standalone or menu
\* item) starts no trigger and issues no request, whatever executingAction is.
C3_DisabledCameraBlocks ==
    [][(~cameraEnabled /\ Activation(lastEvent'))
          => (issued' = issued /\ pending' = pending
              /\ executingAction' = executingAction)]_vars

C3_Witness ==
    /\ ~cameraEnabled
    /\ lastEvent.op = "select"
    /\ ~lastEvent.called
    /\ executingAction # lastEvent.action

----------------------------------------------------------------------------
(* Properties of the partition and of the presenter *)

\* The elements of A at the indices in I, in ascending index order.
RECURSIVE PickFrom(_, _, _)
PickFrom(A, I, k) ==
    IF k > Len(A) THEN <<>>
    ELSE (IF k \in I THEN <<A[k]>> ELSE <<>>) \o PickFrom(A, I, k + 1)

StandaloneIndices(A) == {i \in 1..Len(A) : A[i].standalone = TRUE}
GroupedIndices(A) == (1..Len(A)) \ StandaloneIndices(A)

Mounted == rendered.shape \in {"single", "array"}

\* C4: the two buckets of the partition have lengths that sum to the input
\* length, every action is in exactly one bucket (none dropped, same-named ones
\* kept), and each bucket keeps the input order.
C4_StablePartition ==
    Mounted =>
        LET A == camera.actions
            S == rendered.standaloneActions
            G == rendered.dropdownActions IN
        /\ Len(S) + Len(G) = Len(A)
        /\ S = PickFrom(A, StandaloneIndices(A), 1)
        /\ G = PickFrom(A, GroupedIndices(A), 1)

C4_Witness ==
    /\ Mounted
    /\ Len(camera.actions) = 3
    /\ Len(rendered.standaloneActions) = 2
    /\ Len(rendered.dropdownActions) = 1
    /\ ~camera.actions[2].standalone
    /\ rendered.standaloneActions[1].name = rendered.standaloneActions[2].name
    /\ rendered.standaloneActions[1] # rendered.standaloneActions[2]
    /\ rendered.standaloneActions[1] = camera.actions[1]

DescriptorCount(A) ==
    Cardinality(StandaloneIndices(A)) + (IF GroupedIndices(A) = {} THEN 0 ELSE 1)

\* C7: the presenter yields |standalone| + (1 if grouped is non-empty) controls,
\* the standalone ones first in input order, then at most one menu with one item
\* per grouped action in input order; nothing for an absent or empty list; the
\* single control unwrapped when there is exactly one, the collection otherwise.
C7_PresenterShape ==
    rendered.shape # "unmounted" =>
        IF ~camera.hasActions \/ Len(camera.actions) = 0
        THEN rendered.shape = "null" /\ rendered.components = <<>>
        ELSE LET A == camera.actions
                 S == PickFrom(A, StandaloneIndices(A), 1)
                 G == PickFrom(A, GroupedIndices(A), 1)
                 C == rendered.components IN
             /\ Len(C) = DescriptorCount(A)
             /\ rendered.shape = (IF DescriptorCount(A) = 1 THEN "single" ELSE "array")
             /\ \A k \in 1..Len(S) :
                    C[k].kind = "toggle" /\ C[k].onClick = S[k].name
             /\ G # <<>> =>
                    /\ C[Len(C)].kind = "menu"
                    /\ Len(C[Len(C)].items) = Len(G)
                    /\ \A j \in 1..Len(G) :
                           /\ C[Len(C)].items[j].kind = "item"
                           /\ C[Len(C)].items[j].onClick = G[j].name

C7_Witness ==
    /\ rendered.shape = "single"
    /\ Len(camera.actions) = 3
    /\ rendered.components[1].kind = "menu"
    /\ Len(rendered.components[1].items) = 3

----------------------------------------------------------------------------
(* Properties of getActionIcon *)

ResolvedNames(calls) == [i \in 1..Len(calls) |-> calls[i][1]]

\* C5 as stated: every resolution returns a renderer: the mapped one when the
\* name is a key of the icon table, FaPlay when it is absent or not a key.
C5_Original ==
    \A i \in 1..Len(resolved) :
        LET name == resolved[i][1]
            icon == resolved[i][2] IN
        /\ icon # Null /\ icon # Undefined
        /\ name \in IconKeys => icon = name
        /\ name \notin IconKeys => icon = "FaPlay"

NotInTable(call) == call[1] # Undefined /\ call[1] \notin IconKeys

\* C6 as stated: a name that is present (the empty string included) and not a
\* key of the table gives exactly one warning and the renderer of an absent
\* name; an absent name or a name in the table gives no warning.
C6_Original ==
    /\ consoleWarn = ResolvedNames(SelectSeq(resolved, NotInTable))
    /\ \A i \in 1..Len(resolved) :
           NotInTable(resolved[i]) => resolved[i][2] = getActionIcon(Undefined).icon

----------------------------------------------------------------------------
(* Properties of the running panel *)

\* C8 as stated: the call started last, while it is outstanding, is the one
\* executingAction names, whichever call completes first.
C8_Original ==
    \A r \in pending : r.id = issued => executingAction = r.action

\* C9: activating the control of the action that executingAction names (a
\* standalone control or a menu item) calls no executeAction and issues no request.
C9_ExecutingBlocks ==
    [][(Activation(lastEvent') /\ lastEvent'.action = executingAction)
          => (issued' = issued /\ pending' = pending)]_vars

C9_Witness ==
    /\ cameraEnabled
    /\ lastEvent.op = "select"
    /\ ~lastEvent.called
    /\ executingAction = lastEvent.action

\* Every rendered action control: the standalone ones and the menu items.
Controls ==
    {rendered.components[i] : i \in Toggles}
        \cup UNION {{rendered.components[m].items[j] :
                        j \in 1..Len(rendered.components[m].items)} : m \in Menus}

\* C10: every rendered action control is disabled exactly when cameraEnabled is
\* false or executingAction is its action's name, and is labelled
\* 'Executing <name>...' exactly when executingAction is its action's name, the
\* plain name otherwise.
C10_ControlState ==
    \A c \in Controls :
        /\ c.disabled <=> (~cameraEnabled \/ executingAction = c.onClick)
        /\ (c.title = "Executing " \o c.onClick \o "...") <=> (executingAction = c.onClick)
        /\ executingAction # c.onClick => c.title = c.onClick

C10_Witness ==
    /\ cameraEnabled
    /\ pending # {}
    /\ executingAction = "A"
    /\ \E c, d \in Controls :
           /\ c.kind = "toggle" /\ d.kind = "item"
           /\ c.onClick = "A" /\ c.disabled /\ c.title = "Executing A..."
           /\ d.onClick = "B" /\ ~d.disabled /\ d.title = "B"

\* C11 as stated: no two requests for the same action name are ever outstanding
\* at the same time.
C11_Original ==
    \A r, q \in pending : r.action = q.action => r = q

\* C12: whenever executingAction is not null, a request for the action it names
\* is outstanding.
C12_ExecutingHasRequest ==
    executingAction # Null =>
        \E r \in pending : r.action = executingAction /\ r.camera = camera.name

C12_Witness ==
    /\ executingAction = "B"
    /\ lastEvent.op \in {"click", "select"}
    /\ lastEvent.called
    /\ \E r, q \in pending :
           /\ r.action = "A" /\ q.action = "B"
           /\ r.id < q.id /\ q.id = issued

====
